---- MODULE Spec2Model ----
(***************************************************************************)
(* A model of egui-wlr-layer's ContextDelegate: the registry of layer     *)
(* apps, the frame-request flag shared with the UI engine's repaint        *)
(* callback, the protocol handlers that route events to an app by surface  *)
(* id, and LayerApp::draw.                                                 *)
(*                                                                         *)
(* The UI engine (egui), the compositor and the GPU are the environment:   *)
(* the compositor chooses which event to deliver next, and a run of the    *)
(* UI engine inside draw may or may not invoke the repaint callback.       *)
(***************************************************************************)
EXTENDS Integers, Sequences, FiniteSets, TLC

VARIABLES
    apps,             \* ContextDelegate.apps: surface id -> LayerApp
    touches,          \* ContextDelegate.touches: touch id -> TouchState
    frame_requested,  \* the Arc<AtomicBool> shared by LayerApp and the repaint callback
    exit,             \* the Arc<AtomicBool> shared by LayerApp and LayerAppHandle
    callbacks,        \* wl_surface.frame callbacks registered and not yet delivered
    period,           \* history: the current period of the frame-request flag
    last,             \* history: what the last handler did
    threads,          \* repaint callbacks running outside the dispatch thread
    seats             \* ContextDelegate.keyboard, pointer and touch, and the
                      \* capabilities the seats have announced (seat_state)

vars == <<apps, touches, frame_requested, exit, callbacks, period, last, threads, seats>>

----------------------------------------------------------------------------
(* Program constants *)

DEFAULT_WIDTH == 1920
DEFAULT_HEIGHT == 1080
SCALE_DENOMINATOR == 120

(* Bounds of the model *)

MaxCallbacks == 2      \* outstanding frame callbacks per surface
MaxEvents == 6         \* pending events per app
MaxRouted == 3         \* pending events per app where every handler is routed

(* Input domains *)

SurfaceIds == {"s1", "s2"}
TouchIds == {1, 2}
Positions == {<<10, 20>>, <<30, 40>>}
Widths == {0, 800}
Heights == {0, 600}
IntegerScales == {1, 2}
FractionalScales == {150}           \* in 1/SCALE_DENOMINATOR units
InputRegions == {"Full", "WindowsOnly", "None"}

Threads == {"t1", "t2"}             \* threads other than the dispatch thread
NoOutput == "none"
NoSurface == "none"
NoModifiers == {}
NoSize == <<>>
NoDevice == [seat |-> "none"]
NoReturn == [returned |-> [result |-> "none", error |-> "none", value |-> 0],
             reads |-> 0]

----------------------------------------------------------------------------
(* Events pushed to LayerApp.events *)

PointerGone == [type |-> "PointerGone"]
PointerMoved(pos) == [type |-> "PointerMoved", pos |-> pos]
PointerButton(pos, button, pressed, modifiers) ==
    [type |-> "PointerButton", pos |-> pos, button |-> button,
     pressed |-> pressed, modifiers |-> modifiers]
Touch(id, phase, pos) == [type |-> "Touch", id |-> id, phase |-> phase, pos |-> pos]
WindowFocused(focused) == [type |-> "WindowFocused", focused |-> focused]
Text(chars) == [type |-> "Text", text |-> chars]
Key(key, pressed, modifiers) ==
    [type |-> "Key", key |-> key, physical_key |-> "None", pressed |-> pressed,
     repeat |-> FALSE, modifiers |-> modifiers]

----------------------------------------------------------------------------
(* The LayerApp inserted by new_layer_app.  scale is kept in units of     *)
(* 1/SCALE_DENOMINATOR, so 1.0 is SCALE_DENOMINATOR.                       *)

NewLayerApp(input_regions) ==
    [events |-> <<>>,
     modifiers |-> NoModifiers,
     input_regions |-> input_regions,
     first_configure |-> TRUE,
     width |-> DEFAULT_WIDTH,
     height |-> DEFAULT_HEIGHT,
     scale |-> 1 * SCALE_DENOMINATOR,
     keyboard_focus |-> FALSE]

(* What the handlers read and write: the registry and, per surface, the  *)
(* frame-request flag, the outstanding frame callbacks and the history of *)
(* the flag's current period.                                             *)
World ==
    [apps |-> apps, frame_requested |-> frame_requested,
     callbacks |-> callbacks, period |-> period]

SetWorld(W) ==
    /\ apps' = W.apps
    /\ frame_requested' = W.frame_requested
    /\ callbacks' = W.callbacks
    /\ period' = W.period

Live(s) == s \in DOMAIN apps
Created(s) == s \in DOMAIN frame_requested

(* Removing an app from the registry drops it, and the drop of its        *)
(* LayerSurface destroys the wl_surface; the repaint callback keeps a      *)
(* clone of the proxy of that surface.                                    *)
NeverDestroyed(W, s) == FALSE
destroyed(W, s) == s \notin DOMAIN W.apps

(* surface.frame(..) on the callback's clone: the number of frame         *)
(* callbacks it registers, none when the surface is destroyed, as a       *)
(* request on a destroyed proxy is not sent.                              *)
surface_frame(W, s) == IF destroyed(W, s) THEN 0 ELSE 1

(* The repaint callback's test: register only when no frame is requested. *)
AlwaysRegister(requested) == TRUE
NeverRegister(requested) == FALSE
ShouldRegister(requested) == ~requested

(* The closure given to set_request_repaint_callback, run for surface s:  *)
(* surface.frame(..) and frame_requested.store(true), or "dropped".       *)
request_repaint(W, s) ==
    IF ShouldRegister(W.frame_requested[s])
    THEN [W EXCEPT !.frame_requested[s] = TRUE,
                   !.callbacks[s] = @ + surface_frame(W, s),
                   !.period[s].regs = @ + surface_frame(W, s)]
    ELSE W

(* A thread that is not inside the repaint callback. *)
Idle == [pc |-> "idle", surface |-> NoSurface]

(* draw's first statement: frame_requested.store(false). *)
FlagKeptByDraw(W, s) ==
    [W EXCEPT !.period[s] = [initial |-> FALSE, regs |-> 0]]
clear_requested(W, s) ==
    [W EXCEPT !.frame_requested[s] = FALSE,
              !.period[s] = [initial |-> FALSE, regs |-> 0]]

(* take(&mut self.events): the value taken and what is left in the list. *)
TakeAndKeep(events) == [value |-> events, left |-> events]
take(events) == [value |-> events, left |-> <<>>]

(* What a run of the UI engine inside draw produces, as far as draw      *)
(* uses it: whether the run invoked the repaint callback, and the areas  *)
(* of the UI engine's memory after the run.                               *)
Run(repaint, areas) == [repaint |-> repaint, areas |-> areas]

(* LayerApp::draw of the app of surface s: clears the flag, hands the     *)
(* pending events to the UI engine and runs it.                           *)
draw(W, s, run) ==
    LET cleared == clear_requested(W, s)
        taken == [cleared EXCEPT !.apps[s].events = take(@).left]
    IN  IF run.repaint THEN request_repaint(taken, s) ELSE taken

(* LayerApp::physical_width and physical_height: (size as f32 * scale)    *)
(* as u32, the scale being scale / SCALE_DENOMINATOR.                      *)
PhysicalUnscaled(size, scale) == size
physical(size, scale) == (size * scale) \div SCALE_DENOMINATOR

physical_width(app) == physical(app.width, app.scale)
physical_height(app) == physical(app.height, app.scale)

----------------------------------------------------------------------------
(* Input regions.  A coordinate of the UI engine is an f32: its whole    *)
(* part, and whether a fraction above it is left.                         *)

Coord(whole, fraction) == [whole |-> whole, fraction |-> fraction]
floor(x) == x.whole
ceil(x) == IF x.fraction THEN x.whole + 1 ELSE x.whole

(* What set_input_region is given: None, or a wl_region, kept as the set  *)
(* of pixels it covers.  A surface whose region was never set by the step *)
(* has NoRegion.                                                          *)
NoRegion == [kind |-> "unset", pixels |-> {}]
Unrestricted == [kind |-> "unrestricted", pixels |-> {}]
Region(pixels) == [kind |-> "region", pixels |-> pixels]

(* region.add(x, y, width, height) *)
Rect(x, y, width, height) ==
    {<<i, j>> : i \in x..(x + width - 1), j \in y..(y + height - 1)}

(* An area of the UI engine's memory: the order of its layer, whether it  *)
(* is visible, whether AreaState::load finds its state, and the state's   *)
(* pivot_pos and size, <<>> standing for None.                            *)
Area(order, visible, loaded, pivot_pos, size) ==
    [order |-> order, visible |-> visible, loaded |-> loaded,
     pivot_pos |-> pivot_pos, size |-> size]

(* egui::Order, in its declared order *)
Orders == <<"Background", "Middle", "Foreground", "Tooltip", "Debug">>
OrderRank(order) == CHOOSE i \in DOMAIN Orders : Orders[i] = order

(* draw's filters on the layers and on the area states *)
AnyAreaCounts(a) == a.loaded /\ a.pivot_pos # <<>> /\ a.size # <<>>
area_counts(a) ==
    /\ OrderRank(a.order) > OrderRank("Background")
    /\ a.visible
    /\ a.loaded
    /\ a.pivot_pos # <<>> /\ a.size # <<>>

(* the rectangle draw adds for an area *)
area_rect(a) ==
    Rect(floor(a.pivot_pos[1]), floor(a.pivot_pos[2]),
         ceil(a.size[1]), ceil(a.size[2]))

(* draw's match on self.input_regions *)
input_region(policy, areas) ==
    CASE policy = "Full" -> Unrestricted
      [] policy = "WindowsOnly" ->
            Region(UNION {area_rect(a) : a \in {b \in areas : area_counts(b)}})
      [] policy = "None" -> Region(Rect(0, 0, 0, 0))

(* new_layer_app's match on input_regions *)
initial_input_region(policy) ==
    CASE policy = "Full" -> Unrestricted
      [] policy \in {"WindowsOnly", "None"} -> Region(Rect(0, 0, 0, 0))

----------------------------------------------------------------------------
(* configure's size rule. *)
ConfiguredSizeVerbatim(w, h) == <<w, h>>
ConfiguredSizeBothZero(w, h) ==
    IF w = 0 /\ h = 0 THEN <<DEFAULT_WIDTH, DEFAULT_HEIGHT>> ELSE <<w, h>>
ConfiguredSize(w, h) ==
    IF w = 0 \/ h = 0 THEN <<DEFAULT_WIDTH, DEFAULT_HEIGHT>> ELSE <<w, h>>

(* frame's test of the exit flag. *)
ExitIgnored(s) == FALSE
ExitObserved(s) == exit[s]

----------------------------------------------------------------------------
(* History of the last handler step: its kind, the surface it was routed  *)
(* to, its input, the number of runs of the app's update callback, the    *)
(* events handed to the UI engine, the frame callbacks registered and the *)
(* calls of on_exit.                                                      *)

Step(kind, surface, arg, drew, handed, regs, on_exit) ==
    [kind |-> kind, surface |-> surface, arg |-> arg, drew |-> drew,
     handed |-> handed, regs |-> regs, on_exit |-> on_exit,
     physical |-> NoSize,        \* the size draw configured the GPU surface with
     region |-> NoRegion,        \* the input region the step set on the surface
     destination |-> NoSize,     \* the viewport destination the step set
     areas |-> {},               \* the areas the UI engine reported to the draw
     returned |-> NoReturn,      \* what poll_dispatch returned
     output |-> NoOutput,        \* the output a new layer surface was created on
     calls |-> <<>>]             \* the calls of a registration and of a
                                 \* repaint callback run through the handle

Quiet(kind, surface, arg) == Step(kind, surface, arg, 0, <<>>, 0, 0)

Registered(W, s) == W.callbacks[s] - callbacks[s]

(* A step that drew the app of s: before is the world draw was given, W  *)
(* the one it returned, run what the UI engine produced.                  *)
Drew(kind, s, arg, before, W, run) ==
    [Step(kind, s, arg, 1, take(before.apps[s].events).value,
          W.callbacks[s] - before.callbacks[s], 0)
     EXCEPT !.physical = <<physical_width(before.apps[s]),
                           physical_height(before.apps[s])>>,
            !.region = input_region(before.apps[s].input_regions, run.areas),
            !.areas = run.areas]

----------------------------------------------------------------------------
Init ==
    /\ apps = << >>
    /\ touches = << >>
    /\ frame_requested = << >>
    /\ exit = << >>
    /\ callbacks = [s \in SurfaceIds |-> 0]
    /\ period = << >>
    /\ last = Quiet("new", NoSurface, <<>>)
    /\ threads = [t \in Threads |-> Idle]
    /\ seats = [keyboard |-> NoDevice, pointer |-> NoDevice, touch |-> NoDevice,
                capabilities |-> {}, entered |-> NoSurface]

(* LayerAppOpts: the output selector, None or a predicate on OutputInfo   *)
(* kept as the set of output names it accepts, and the input regions.     *)
NoSelector == [some |-> FALSE, names |-> {}]
Selector(names) == [some |-> TRUE, names |-> names]
LayerAppOpts(output, input_regions) ==
    [output |-> output, input_regions |-> input_regions]

(* An output of OutputState: info is whether OutputState has its          *)
(* OutputInfo, name the name in it.                                       *)
Output(id, info, name) == [id |-> id, info |-> info, name |-> name]

(* new_layer_app's choice of the output, over OutputState::outputs() in   *)
(* its order                                                              *)
HasInfo(output) == output.info
LastMatch(selector, candidates) ==
    LET matching == SelectSeq(candidates, LAMBDA o : o.name \in selector.names)
    IN  IF matching = <<>> THEN NoOutput ELSE matching[Len(matching)].id
find_map(selector, candidates) ==
    LET matching == SelectSeq(candidates, LAMBDA o : o.name \in selector.names)
    IN  IF matching = <<>> THEN NoOutput ELSE Head(matching).id
select_output(selector, outputs) ==
    IF selector.some
    THEN find_map(selector, SelectSeq(outputs, HasInfo))
    ELSE NoOutput

(* The calls new_layer_app makes on the new surface, the app and the      *)
(* registry, in their order.                                              *)
CommitBeforeInit ==
    <<"create_surface", "create_layer_surface", "commit", "on_init",
      "set_input_region", "create_surface_unsafe", "fractional_scaling", "insert">>
new_layer_app_calls ==
    <<"create_surface", "create_layer_surface", "on_init", "set_input_region",
      "create_surface_unsafe", "commit", "fractional_scaling", "insert">>

(* Context::new_layer_app *)
new_layer_app_opts(s, opts, outputs) ==
    /\ ~Created(s)
    /\ apps' = apps @@ (s :> NewLayerApp(opts.input_regions))
    /\ frame_requested' = frame_requested @@ (s :> TRUE)
    /\ exit' = exit @@ (s :> FALSE)
    /\ period' = period @@ (s :> [initial |-> TRUE, regs |-> 0])
    /\ last' = [Quiet("new_layer_app", s, <<opts, outputs>>)
                 EXCEPT !.region = initial_input_region(opts.input_regions),
                        !.output = select_output(opts.output, outputs),
                        !.calls = new_layer_app_calls]
    /\ UNCHANGED <<touches, callbacks, threads, seats>>

(* Context::new_layer_app with the default output of LayerAppOpts, None *)
new_layer_app(s, input_regions) ==
    new_layer_app_opts(s, LayerAppOpts(NoSelector, input_regions), <<>>)

(* The UI engine's repaint notification, whoever causes it. *)
callback_calls(s) ==
    IF ShouldRegister(frame_requested[s]) THEN <<"frame", "store">> ELSE <<>>

RequestRepaint(s) ==
    /\ Created(s)
    /\ LET W == request_repaint(World, s) IN
        /\ SetWorld(W)
        /\ last' = [Step("request_repaint", s, <<>>, 0, <<>>, Registered(W, s), 0)
                     EXCEPT !.calls = callback_calls(s)]
    /\ UNCHANGED <<touches, exit, threads, seats>>

(* LayerAppHandle::exit *)
handle_exit(s) ==
    /\ Created(s)
    /\ exit' = [exit EXCEPT ![s] = TRUE]
    /\ LET W == request_repaint(World, s) IN
        /\ SetWorld(W)
        /\ last' = [Step("exit", s, <<>>, 0, <<>>, Registered(W, s), 0)
                     EXCEPT !.calls = callback_calls(s)]
    /\ UNCHANGED <<touches, threads, seats>>

(* configure's test for the first draw *)
DrawsOnEveryConfigure(app) == TRUE
initiates_first_draw(app) == app.first_configure

(* LayerShellHandler::configure *)
configure(s, w, h, run) ==
    /\ IF Live(s)
       THEN LET size == ConfiguredSize(w, h)
                sized == [World EXCEPT !.apps[s].width = size[1],
                                       !.apps[s].height = size[2]]
            IN  IF initiates_first_draw(apps[s])
                THEN LET first == [sized EXCEPT !.apps[s].first_configure = FALSE]
                         W == draw(first, s, run)
                     IN  /\ SetWorld(W)
                         /\ last' = Drew("configure", s, <<w, h>>, first, W, run)
                ELSE /\ SetWorld(sized)
                     /\ last' = Quiet("configure", s, <<w, h>>)
       ELSE /\ last' = Quiet("configure", s, <<w, h>>)
            /\ UNCHANGED <<apps, frame_requested, callbacks, period>>
    /\ UNCHANGED <<touches, exit, threads, seats>>

(* scale_factor_changed's "No change" test *)
AlwaysChanged(app, new_factor) == FALSE
no_change(app, new_factor) == app.scale = new_factor

(* ContextDelegate::scale_factor_changed, new_factor in 1/120 units *)
scale_factor_changed(kind, s, new_factor, run) ==
    /\ IF Live(s) /\ ~no_change(apps[s], new_factor)
       THEN LET scaled == [World EXCEPT !.apps[s].scale = new_factor]
                W == draw(scaled, s, run)
            IN  /\ SetWorld(W)
                /\ last' = [Drew(kind, s, <<new_factor>>, scaled, W, run)
                             EXCEPT !.destination = <<apps[s].width, apps[s].height>>]
       ELSE /\ last' = Quiet(kind, s, <<new_factor>>)
            /\ UNCHANGED <<apps, frame_requested, callbacks, period>>
    /\ UNCHANGED <<touches, exit, threads, seats>>

(* the integer handler's test: app.scale.round() != app.scale *)
NeverFractional(app) == FALSE
already_fractional(app) == app.scale % SCALE_DENOMINATOR # 0

(* CompositorHandler::scale_factor_changed: the integer scale *)
integer_scale_factor_changed(s, new_factor, run) ==
    IF Live(s) /\ ~already_fractional(apps[s])
    THEN scale_factor_changed("integer_scale", s, new_factor * SCALE_DENOMINATOR, run)
    ELSE /\ last' = Quiet("integer_scale", s, <<new_factor * SCALE_DENOMINATOR>>)
         /\ UNCHANGED <<apps, touches, frame_requested, exit, callbacks, period, threads, seats>>

(* Dispatch<WpFractionalScaleV1>::event, PreferredScale *)
preferred_scale(s, scale, run) ==
    scale_factor_changed("preferred_scale", s, scale, run)

(* CompositorHandler::frame: a registered callback is delivered *)
frame(s, run) ==
    /\ callbacks[s] > 0
    /\ LET delivered == [World EXCEPT !.callbacks[s] = @ - 1] IN
       IF Live(s)
       THEN IF ExitObserved(s)
            THEN /\ SetWorld([delivered EXCEPT
                                !.apps = [t \in DOMAIN apps \ {s} |-> apps[t]]])
                 /\ last' = Step("frame", s, <<>>, 0, <<>>, 0, 1)
            ELSE LET W == draw(delivered, s, run) IN
                 /\ SetWorld(W)
                 /\ last' = Drew("frame", s, <<>>, delivered, W, run)
       ELSE /\ SetWorld(delivered)
            /\ last' = Quiet("frame", s, <<>>)
    /\ UNCHANGED <<touches, exit, threads, seats>>

----------------------------------------------------------------------------
(* Input handlers *)

(* app.events.push / extend_from_slice *)
PushToEveryApp(W, s, events) ==
    [W EXCEPT !.apps = [o \in DOMAIN W.apps |->
                          [W.apps[o] EXCEPT !.events = @ \o events]]]
push(W, s, events) == [W EXCEPT !.apps[s].events = @ \o events]

(* KeyboardHandler::enter and leave *)
keyboard_focus(kind, s, focused) ==
    /\ IF Live(s)
       THEN SetWorld(push([World EXCEPT !.apps[s].keyboard_focus = focused],
                          s, <<WindowFocused(focused)>>))
       ELSE UNCHANGED <<apps, frame_requested, callbacks, period>>
    /\ last' = Quiet(kind, s, <<>>)
    /\ UNCHANGED <<touches, exit, threads>>

keyboard_enter(s) == keyboard_focus("keyboard_enter", s, TRUE) /\ UNCHANGED seats
keyboard_leave(s) == keyboard_focus("keyboard_leave", s, FALSE) /\ UNCHANGED seats

(* The enter and leave events of the wl_keyboard that is held, as the     *)
(* compositor sends them: seats.entered is the surface that keyboard has  *)
(* entered, a leave precedes the next enter, and a released keyboard      *)
(* gets no more events.                                                   *)
wl_keyboard_enter(s) ==
    /\ seats.keyboard # NoDevice /\ seats.entered = NoSurface
    /\ keyboard_focus("keyboard_enter", s, TRUE)
    /\ seats' = [seats EXCEPT !.entered = s]

wl_keyboard_leave(s) ==
    /\ seats.keyboard # NoDevice /\ seats.entered = s
    /\ keyboard_focus("keyboard_leave", s, FALSE)
    /\ seats' = [seats EXCEPT !.entered = NoSurface]

(* A KeyEvent of smithay-client-toolkit: its keysym and its utf8, an      *)
(* Option<String> kept as the sequence of its characters.                 *)
NoText == [some |-> FALSE, chars |-> <<>>]
SomeText(chars) == [some |-> TRUE, chars |-> chars]
KeyEvent(keysym, utf8) == [keysym |-> keysym, utf8 |-> utf8]

(* char::is_control, over the characters the model types *)
ControlChars == {"LF", "ESC"}
is_control(c) == c \in ControlChars

(* key_event's test for pushing a Text event *)
TextForAnyUtf8(utf8) == utf8.some
produces_text(utf8) ==
    /\ utf8.some
    /\ utf8.chars # <<>>
    /\ \A i \in DOMAIN utf8.chars : ~is_control(utf8.chars[i])

(* keysyms::wl_to_egui: the egui key of a keysym, NoKey for None *)
NoKey == "None"
wl_to_egui(keysym) ==
    CASE keysym = "a" -> "A"
      [] keysym = "Return" -> "Enter"
      [] keysym = "Escape" -> "Escape"
      [] OTHER -> NoKey

(* find(|app| app.keyboard_focus) over apps.values_mut(): the apps it may *)
(* return, the first in the map's iteration order being any of them       *)
EveryAppHasFocus(app) == TRUE
has_focus(app) == app.keyboard_focus

focused == {s \in DOMAIN apps : has_focus(apps[s])}

(* ContextDelegate::key_event *)
key_event(event, pressed) ==
    /\ IF focused # {}
       THEN \E s \in focused :
              LET texted == IF produces_text(event.utf8)
                            THEN push(World, s, <<Text(event.utf8.chars)>>)
                            ELSE World
                  key == wl_to_egui(event.keysym)
                  W == IF key = NoKey
                       THEN texted
                       ELSE request_repaint(
                              push(texted, s, <<Key(key, pressed, apps[s].modifiers)>>), s)
              IN  /\ SetWorld(W)
                  /\ last' = Step("key_event", s, <<event, pressed>>, 0, <<>>,
                                  Registered(W, s), 0)
       ELSE /\ last' = Quiet("key_event", NoSurface, <<event, pressed>>)
            /\ UNCHANGED <<apps, frame_requested, callbacks, period>>
    /\ UNCHANGED <<touches, exit, threads, seats>>

(* KeyboardHandler::press_key and release_key *)
press_key(event) == key_event(event, TRUE)
release_key(event) == key_event(event, FALSE)

(* update_modifiers' conversion of the keyboard's modifiers, a set of the *)
(* modifiers that are down, to egui::Modifiers                            *)
ModifiersVerbatim(modifiers) == modifiers
egui_modifiers(modifiers) ==
    (modifiers \cap {"alt", "ctrl", "shift"})
        \cup (IF "ctrl" \in modifiers THEN {"command"} ELSE {})

(* KeyboardHandler::update_modifiers *)
update_modifiers(modifiers) ==
    /\ IF focused # {}
       THEN \E s \in focused :
              /\ SetWorld([World EXCEPT !.apps[s].modifiers = egui_modifiers(modifiers)])
              /\ last' = Quiet("update_modifiers", s, <<modifiers>>)
       ELSE /\ last' = Quiet("update_modifiers", NoSurface, <<modifiers>>)
            /\ UNCHANGED <<apps, frame_requested, callbacks, period>>
    /\ UNCHANGED <<touches, exit, threads, seats>>

(* The field of ContextDelegate that holds the device of a capability *)
device(capability) ==
    CASE capability = "Keyboard" -> "keyboard"
      [] capability = "Pointer" -> "pointer"
      [] capability = "Touch" -> "touch"

(* SeatHandler::new_capability: smithay-client-toolkit calls it when a    *)
(* seat starts to advertise a capability.                                 *)
new_capability(seat, capability) ==
    /\ <<seat, capability>> \notin seats.capabilities
    /\ seats' = [seats EXCEPT
          !.capabilities = @ \cup {<<seat, capability>>},
          ![device(capability)] = IF @ = NoDevice THEN [seat |-> seat] ELSE @,
          !.entered = IF capability = "Keyboard" /\ seats.keyboard = NoDevice
                      THEN NoSurface ELSE @]
    /\ last' = Quiet("new_capability", NoSurface, <<seat, capability>>)
    /\ UNCHANGED <<apps, touches, frame_requested, exit, callbacks, period, threads>>

(* SeatHandler::remove_capability: called when a seat stops advertising   *)
(* a capability; take() empties the field whichever seat the device was   *)
(* obtained from.                                                         *)
release(seat, held) == NoDevice

remove_capability(seat, capability) ==
    /\ <<seat, capability>> \in seats.capabilities
    /\ seats' = [seats EXCEPT
          !.capabilities = @ \ {<<seat, capability>>},
          ![device(capability)] = release(seat, @),
          !.entered = IF capability = "Keyboard" THEN NoSurface ELSE @]
    /\ last' = Quiet("remove_capability", NoSurface, <<seat, capability>>)
    /\ UNCHANGED <<apps, touches, frame_requested, exit, callbacks, period, threads>>

(* pointer_frame's button match *)
EveryButtonPrimary(button) == "Primary"
pointer_button(button) ==
    CASE button = "BTN_RIGHT" -> "Secondary"
      [] button = "BTN_MIDDLE" -> "Middle"
      [] button \in {"BTN_BACK", "BTN_SIDE"} -> "Extra1"
      [] button \in {"BTN_FORWARD", "BTN_EXTRA"} -> "Extra2"
      [] OTHER -> "Primary"

(* A PointerEvent of smithay-client-toolkit, with the fields of its kind. *)
PointerEvent(surface, position, kind, button, horizontal, vertical) ==
    [surface |-> surface, position |-> position, kind |-> kind,
     button |-> button, horizontal |-> horizontal, vertical |-> vertical]

(* pointer_frame's match on the event kind, for every kind but Enter *)
pointer_event(e, modifiers) ==
    CASE e.kind = "Leave" -> PointerGone
      [] e.kind = "Motion" -> PointerMoved(e.position)
      [] e.kind = "Axis" ->
            [type |-> "MouseWheel", unit |-> "Line",
             delta |-> <<e.horizontal, -e.vertical>>, modifiers |-> modifiers]
      [] e.kind \in {"Press", "Release"} ->
            PointerButton(e.position, pointer_button(e.button),
                          e.kind = "Press", modifiers)

(* pointer_frame's loop over the events of the frame *)
RECURSIVE pointer_events(_, _)
pointer_events(W, events) ==
    IF events = <<>> THEN W
    ELSE LET e == Head(events)
             s == e.surface
         IN  pointer_events(
                IF s \in DOMAIN W.apps /\ e.kind # "Enter"
                THEN request_repaint(
                        push(W, s, <<pointer_event(e, W.apps[s].modifiers)>>), s)
                ELSE W,
                Tail(events))

(* PointerHandler::pointer_frame *)
pointer_frame(events) ==
    /\ LET W == pointer_events(World, events)
           s == events[1].surface
       IN  /\ SetWorld(W)
           /\ last' = Step("pointer_frame", s, events, 0, <<>>, Registered(W, s), 0)
    /\ UNCHANGED <<touches, exit, threads, seats>>

(* The events touch down, up and motion push *)
touch_down_events(id, pos, modifiers) ==
    <<PointerGone, Touch(id, "Start", pos),
      PointerButton(pos, "Primary", TRUE, modifiers)>>

UpEventsReleaseFirst(id, pos, modifiers) ==
    <<PointerButton(pos, "Primary", FALSE, modifiers), Touch(id, "End", pos),
      PointerGone>>
touch_up_events(id, pos, modifiers) ==
    <<Touch(id, "End", pos), PointerButton(pos, "Primary", FALSE, modifiers),
      PointerGone>>

touch_motion_events(id, pos) ==
    <<Touch(id, "Move", pos), PointerMoved(pos)>>

(* TouchHandler::down *)
touch_down(s, id, pos) ==
    /\ IF Live(s)
       THEN LET W == request_repaint(
                        push(World, s, touch_down_events(id, pos, apps[s].modifiers)), s)
            IN  /\ SetWorld(W)
                /\ touches' = [t \in DOMAIN touches \cup {id} |->
                                 IF t = id
                                 THEN [surface_id |-> s, last_position |-> pos]
                                 ELSE touches[t]]
                /\ last' = Step("touch_down", s, <<id, pos>>, 0, <<>>, Registered(W, s), 0)
       ELSE /\ last' = Quiet("touch_down", s, <<id, pos>>)
            /\ UNCHANGED <<apps, touches, frame_requested, callbacks, period>>
    /\ UNCHANGED <<exit, threads, seats>>

(* The surface a touch point is recorded on *)
TouchSurface(id) ==
    IF id \in DOMAIN touches THEN touches[id].surface_id ELSE NoSurface

(* TouchHandler::up *)
touch_up(id) ==
    /\ IF id \in DOMAIN touches /\ Live(touches[id].surface_id)
       THEN LET s == touches[id].surface_id
                W == request_repaint(
                        push(World, s, touch_up_events(id, touches[id].last_position,
                                                       apps[s].modifiers)), s)
            IN  /\ SetWorld(W)
                /\ last' = Step("touch_up", s, <<id>>, 0, <<>>, Registered(W, s), 0)
       ELSE /\ last' = Quiet("touch_up", TouchSurface(id), <<id>>)
            /\ UNCHANGED <<apps, frame_requested, callbacks, period>>
    /\ UNCHANGED <<touches, exit, threads, seats>>

(* motion stores the position only where it has found the touch point   *)
(* and the app of its surface.                                            *)
MotionStoresForAnyTouch(id) == id \in DOMAIN touches
motion_stores_position(id) ==
    id \in DOMAIN touches /\ Live(touches[id].surface_id)

(* TouchHandler::motion *)
touch_motion(id, pos) ==
    /\ IF id \in DOMAIN touches /\ Live(touches[id].surface_id)
       THEN LET s == touches[id].surface_id
                W == request_repaint(push(World, s, touch_motion_events(id, pos)), s)
            IN  /\ SetWorld(W)
                /\ last' = Step("touch_motion", s, <<id, pos>>, 0, <<>>,
                                Registered(W, s), 0)
       ELSE /\ last' = Quiet("touch_motion", TouchSurface(id), <<id, pos>>)
            /\ UNCHANGED <<apps, frame_requested, callbacks, period>>
    /\ touches' = IF motion_stores_position(id)
                  THEN [touches EXCEPT ![id].last_position = pos]
                  ELSE touches
    /\ UNCHANGED <<exit, threads, seats>>

----------------------------------------------------------------------------
(* The orders in which a HashMap or HashSet with the keys S is iterated *)
iteration_orders(S) ==
    {order \in [1..Cardinality(S) -> S] : \A x \in S : \E i \in DOMAIN order : order[i] = x}

(* The event cancel pushes for a touch point *)
CancelAsEnd(id, touch_state) == Touch(id, "End", touch_state.last_position)
cancel_event(id, touch_state) == Touch(id, "Cancel", touch_state.last_position)

(* cancel's first loop, over the touch points taken from the map: the     *)
(* world and the set emit_pointer_gone it leaves                          *)
RECURSIVE cancel_touches(_, _, _, _)
cancel_touches(W, gone, taken, order) ==
    IF order = <<>> THEN [world |-> W, emit_pointer_gone |-> gone]
    ELSE LET id == Head(order)
             s == taken[id].surface_id
         IN  IF s \in DOMAIN W.apps
             THEN cancel_touches(push(W, s, <<cancel_event(id, taken[id])>>),
                                 gone \cup {s}, taken, Tail(order))
             ELSE cancel_touches(W, gone, taken, Tail(order))

(* cancel's second loop, over emit_pointer_gone *)
RECURSIVE cancel_pointer_gone(_, _)
cancel_pointer_gone(W, order) ==
    IF order = <<>> THEN W
    ELSE LET s == Head(order)
         IN  cancel_pointer_gone(
                IF s \in DOMAIN W.apps
                THEN request_repaint(push(W, s, <<PointerGone>>), s)
                ELSE W,
                Tail(order))

(* TouchHandler::cancel *)
touch_cancel(order) ==
    /\ order \in iteration_orders(DOMAIN touches)
    /\ LET first == cancel_touches(World, {}, touches, order) IN
        \E surfaces \in iteration_orders(first.emit_pointer_gone) :
            LET W == cancel_pointer_gone(first.world, surfaces) IN
            /\ SetWorld(W)
            /\ last' = Quiet("touch_cancel", NoSurface, order)
    /\ touches' = << >>
    /\ UNCHANGED <<exit, threads, seats>>

(* The repaint callback of surface s run by a thread t other than the    *)
(* dispatch thread, one access to the shared flag at a time:              *)
(* frame_requested.load, surface.frame, frame_requested.store(true).      *)
callback_load(t, s) ==
    /\ threads[t] = Idle
    /\ Created(s)
    /\ threads' = [threads EXCEPT ![t] =
                      IF ShouldRegister(frame_requested[s])
                      THEN [pc |-> "frame", surface |-> s]
                      ELSE Idle]
    /\ last' = Quiet("callback_load", s, <<t>>)
    /\ UNCHANGED <<apps, touches, frame_requested, exit, callbacks, period, seats>>

callback_frame(t) ==
    /\ threads[t].pc = "frame"
    /\ LET s == threads[t].surface IN
        /\ callbacks' = [callbacks EXCEPT ![s] = @ + 1]
        /\ period' = [period EXCEPT ![s].regs = @ + 1]
        /\ threads' = [threads EXCEPT ![t].pc = "store"]
        /\ last' = Step("callback_frame", s, <<t>>, 0, <<>>, 1, 0)
    /\ UNCHANGED <<apps, touches, frame_requested, exit, seats>>

callback_store(t) ==
    /\ threads[t].pc = "store"
    /\ LET s == threads[t].surface IN
        /\ frame_requested' = [frame_requested EXCEPT ![s] = TRUE]
        /\ last' = Quiet("callback_store", s, <<t>>)
    /\ threads' = [threads EXCEPT ![t] = Idle]
    /\ UNCHANGED <<apps, touches, exit, callbacks, period, seats>>

(* EventQueue::dispatch_pending over a queue of buffered events, here     *)
(* pointer frames: it runs the handler of each in order and returns how   *)
(* many it dispatched, the length of the queue.                           *)
RECURSIVE dispatch_pending(_, _)
dispatch_pending(W, queue) ==
    IF queue = <<>> THEN W
    ELSE dispatch_pending(pointer_events(W, Head(queue)), Tail(queue))

(* Context::poll_dispatch after dispatch_pending found nothing buffered:  *)
(* flush, then one read if prepare_read gives a guard, then a dispatch of *)
(* what the read brought.  flush and read are the results of the          *)
(* transport, "ok", "would_block" or an error; the value is what          *)
(* poll_dispatch returns, with the reads it made.                         *)
Ok(n) == [result |-> "Ok", error |-> "none", value |-> n]
Err(e) == [result |-> "Err", error |-> e, value |-> 0]

PollSwallowsErrors(flush, guard, read, arrived) == [returned |-> Ok(0), reads |-> 0]
poll_idle(flush, guard, read, arrived) ==
    IF flush # "ok" THEN [returned |-> Err(flush), reads |-> 0]
    ELSE IF ~guard THEN [returned |-> Ok(0), reads |-> 0]
    ELSE CASE read = "ok" -> [returned |-> Ok(Len(arrived)), reads |-> 1]
           [] read = "would_block" -> [returned |-> Ok(0), reads |-> 1]
           [] OTHER -> [returned |-> Err(read), reads |-> 1]

(* poll_dispatch's early return *)
NeverReturnsEarly(dispatched) == FALSE
returns_early(dispatched) == dispatched > 0

(* The calls poll_dispatch makes on the event queue and the connection *)
poll_calls(dispatched, flush, guard, read) ==
    <<"dispatch_pending">> \o
      (IF returns_early(dispatched) THEN <<>>
       ELSE <<"flush">> \o
         (IF flush # "ok" THEN <<>>
          ELSE <<"prepare_read">> \o
            (IF ~guard THEN <<>>
             ELSE <<"read">> \o
               (IF read = "ok" THEN <<"dispatch_pending">> ELSE <<>>))))

(* Context::poll_dispatch: buffered is the events in the queue when it    *)
(* is called, arrived the events a successful read puts in the queue.     *)
poll_dispatch(buffered, flush, guard, read, arrived) ==
    /\ LET dispatched == Len(buffered)
           first == dispatch_pending(World, buffered)
           calls == poll_calls(dispatched, flush, guard, read)
           W == IF calls[Len(calls)] = "dispatch_pending" /\ Len(calls) > 1
                THEN dispatch_pending(first, arrived)
                ELSE first
       IN  /\ SetWorld(W)
           /\ last' = [Quiet("poll_dispatch", NoSurface,
                              <<flush, guard, read, buffered, arrived>>)
                        EXCEPT !.returned =
                                  IF returns_early(dispatched)
                                  THEN [returned |-> Ok(dispatched), reads |-> 0]
                                  ELSE poll_idle(flush, guard, read, arrived),
                               !.calls = calls]
    /\ UNCHANGED <<touches, exit, threads, seats>>

(* Runs of the UI engine that leave no area in its memory *)
QuietRuns == {Run(repaint, {}) : repaint \in BOOLEAN}

(* The bounds every step keeps *)
Bounded ==
    /\ \A s \in SurfaceIds : callbacks[s] <= MaxCallbacks
    /\ \A s \in DOMAIN apps : Len(apps[s].events) <= MaxEvents

(* Frame scheduling and the life of a surface *)
Next ==
    \/ \E s \in SurfaceIds : new_layer_app(s, "Full") /\ Bounded'
    \/ \E s \in DOMAIN apps : RequestRepaint(s) /\ Bounded'
    \/ \E s \in DOMAIN apps : handle_exit(s) /\ Bounded'
    \/ \E s \in SurfaceIds, w \in Widths, h \in Heights, r \in QuietRuns :
          configure(s, w, h, r) /\ Bounded'
    \/ \E s \in SurfaceIds, k \in IntegerScales, r \in QuietRuns :
          integer_scale_factor_changed(s, k, r) /\ Bounded'
    \/ \E s \in SurfaceIds, r \in QuietRuns : frame(s, r) /\ Bounded'

Spec == Init /\ [][Next]_vars

(* The same on one surface, with the compositor's promises as fairness:   *)
(* the first configure of a registered surface is delivered, and so is    *)
(* every registered frame callback.  Nothing obliges the UI engine or     *)
(* the embedder to ask for a repaint.                                     *)
FairSurfaces == {"s1"}

FirstConfigure(s) ==
    \E w \in Widths, h \in Heights, r \in QuietRuns :
        /\ Live(s) /\ apps[s].first_configure
        /\ configure(s, w, h, r) /\ Bounded'

FrameDelivered(s) == \E r \in QuietRuns : frame(s, r) /\ Bounded'

FairNext ==
    \/ \E s \in FairSurfaces : new_layer_app(s, "Full") /\ Bounded'
    \/ \E s \in FairSurfaces : Live(s) /\ RequestRepaint(s) /\ Bounded'
    \/ \E s \in FairSurfaces : Live(s) /\ handle_exit(s) /\ Bounded'
    \/ \E s \in FairSurfaces, w \in Widths, h \in Heights, r \in QuietRuns :
          configure(s, w, h, r) /\ Bounded'
    \/ \E s \in FairSurfaces, k \in IntegerScales, r \in QuietRuns :
          integer_scale_factor_changed(s, k, r) /\ Bounded'
    \/ \E s \in FairSurfaces, n \in FractionalScales, r \in QuietRuns :
          preferred_scale(s, n, r) /\ Bounded'
    \/ \E s \in FairSurfaces : FrameDelivered(s)

FairSpec ==
    /\ Init /\ [][FairNext]_vars
    /\ \A s \in FairSurfaces : WF_vars(FirstConfigure(s)) /\ WF_vars(FrameDelivered(s))

(* Touch input on one surface, from registration to teardown *)
TouchSurfaces == {"s1"}

TouchNext ==
    \/ \E s \in TouchSurfaces : new_layer_app(s, "Full") /\ Bounded'
    \/ \E s \in TouchSurfaces, r \in QuietRuns : configure(s, 800, 600, r) /\ Bounded'
    \/ \E s \in TouchSurfaces : Live(s) /\ handle_exit(s) /\ Bounded'
    \/ \E s \in TouchSurfaces, r \in QuietRuns : frame(s, r) /\ Bounded'
    \/ \E s \in TouchSurfaces, id \in TouchIds, pos \in Positions :
          touch_down(s, id, pos) /\ Bounded'
    \/ \E id \in TouchIds : touch_up(id) /\ Bounded'
    \/ \E id \in TouchIds, pos \in Positions : touch_motion(id, pos) /\ Bounded'

TouchSpec == Init /\ [][TouchNext]_vars

(* Every routed handler, aimed at a surface that is registered and torn   *)
(* down and at a surface id that is never registered.                     *)
RouteSurfaces == {"s1"}
RoutePosition == <<10, 20>>
RouteTouches == {1}

RoutePointerEvents ==
    {PointerEvent(s, RoutePosition, "Motion", "BTN_LEFT", 0, 0) : s \in SurfaceIds}
RoutePointerFrames ==
    {<<e>> : e \in RoutePointerEvents}
        \cup {<<e, f>> : e \in RoutePointerEvents, f \in RoutePointerEvents}

RouteBounded ==
    /\ \A s \in SurfaceIds : callbacks[s] <= MaxCallbacks
    /\ \A s \in DOMAIN apps : Len(apps[s].events) <= MaxRouted

RouteNext ==
    \/ \E s \in RouteSurfaces : new_layer_app(s, "Full") /\ RouteBounded'
    \/ \E s \in RouteSurfaces : Live(s) /\ handle_exit(s) /\ RouteBounded'
    \/ \E s \in SurfaceIds, r \in QuietRuns : configure(s, 800, 600, r) /\ RouteBounded'
    \/ \E s \in SurfaceIds, r \in QuietRuns :
          integer_scale_factor_changed(s, 2, r) /\ RouteBounded'
    \/ \E s \in SurfaceIds, n \in FractionalScales, r \in QuietRuns :
          preferred_scale(s, n, r) /\ RouteBounded'
    \/ \E s \in SurfaceIds, r \in QuietRuns : frame(s, r) /\ RouteBounded'
    \/ \E s \in SurfaceIds : keyboard_enter(s) /\ RouteBounded'
    \/ \E s \in SurfaceIds : keyboard_leave(s) /\ RouteBounded'
    \/ \E f \in RoutePointerFrames : pointer_frame(f) /\ RouteBounded'
    \/ \E s \in SurfaceIds, id \in RouteTouches :
          touch_down(s, id, RoutePosition) /\ RouteBounded'
    \/ \E id \in RouteTouches : touch_up(id) /\ RouteBounded'
    \/ \E id \in RouteTouches, pos \in Positions :
          touch_motion(id, pos) /\ RouteBounded'

RouteSpec == Init /\ [][RouteNext]_vars

(* Drawing: one surface under each input-region policy, integer and      *)
(* fractional scale updates, and a UI engine that reports areas.          *)
RenderSurfaces == {"s1"}
RenderScales == {150, 180, 240}     \* in 1/SCALE_DENOMINATOR units; 240 is 2.0

Panel ==
    Area("Background", TRUE, TRUE,
         <<Coord(0, FALSE), Coord(0, FALSE)>>, <<Coord(3, FALSE), Coord(3, FALSE)>>)
WindowA ==
    Area("Middle", TRUE, TRUE,
         <<Coord(0, TRUE), Coord(1, FALSE)>>, <<Coord(1, TRUE), Coord(2, FALSE)>>)
WindowB ==
    Area("Foreground", TRUE, TRUE,
         <<Coord(1, FALSE), Coord(2, FALSE)>>, <<Coord(2, FALSE), Coord(1, TRUE)>>)
Hidden ==
    Area("Middle", FALSE, TRUE,
         <<Coord(4, FALSE), Coord(4, FALSE)>>, <<Coord(1, FALSE), Coord(1, FALSE)>>)
Unsized ==
    Area("Tooltip", TRUE, TRUE, <<Coord(5, FALSE), Coord(5, FALSE)>>, <<>>)
Unloaded == Area("Middle", TRUE, FALSE, <<>>, <<>>)

RenderAreaSets ==
    {{}, {WindowA}, {WindowA, WindowB}, {Panel},
     {Panel, WindowA, WindowB, Hidden, Unsized}, {Hidden, Unsized, Unloaded}}

AreaRuns == {Run(repaint, areas) : repaint \in BOOLEAN, areas \in RenderAreaSets}

RenderNext ==
    \/ \E s \in RenderSurfaces, policy \in InputRegions :
          new_layer_app(s, policy) /\ Bounded'
    \/ \E s \in RenderSurfaces : Live(s) /\ RequestRepaint(s) /\ Bounded'
    \/ \E s \in RenderSurfaces, w \in Widths, h \in Heights, r \in AreaRuns :
          configure(s, w, h, r) /\ Bounded'
    \/ \E s \in RenderSurfaces, k \in IntegerScales, r \in AreaRuns :
          integer_scale_factor_changed(s, k, r) /\ Bounded'
    \/ \E s \in RenderSurfaces, n \in RenderScales, r \in AreaRuns :
          preferred_scale(s, n, r) /\ Bounded'
    \/ \E s \in RenderSurfaces, r \in AreaRuns : frame(s, r) /\ Bounded'

RenderSpec == Init /\ [][RenderNext]_vars

(* Polling between the events of one surface *)
PollSurfaces == {"s1"}
TransportResults == {"ok", "would_block", "connection_reset", "protocol_error"}

PollNext ==
    \/ \E s \in PollSurfaces : new_layer_app(s, "Full") /\ Bounded'
    \/ \E s \in PollSurfaces, r \in QuietRuns : configure(s, 800, 600, r) /\ Bounded'
    \/ \E s \in PollSurfaces : Live(s) /\ RequestRepaint(s) /\ Bounded'
    \/ \E s \in PollSurfaces, r \in QuietRuns : frame(s, r) /\ Bounded'
    \/ \E s \in PollSurfaces : keyboard_enter(s) /\ Bounded'
    \/ \E flush \in TransportResults, guard \in BOOLEAN, read \in TransportResults :
          poll_dispatch(<<>>, flush, guard, read, <<>>)

PollSpec == Init /\ [][PollNext]_vars

(* Repaint requests from other threads, beside the dispatch thread's     *)
(* handlers for one surface.                                              *)
ThreadSurfaces == {"s1"}
MaxThreadCallbacks == 3

ThreadBounded == \A s \in SurfaceIds : callbacks[s] <= MaxThreadCallbacks

ThreadNext ==
    \/ \E s \in ThreadSurfaces : new_layer_app(s, "Full") /\ ThreadBounded'
    \/ \E s \in ThreadSurfaces, r \in QuietRuns :
          configure(s, 800, 600, r) /\ ThreadBounded'
    \/ \E s \in ThreadSurfaces, r \in QuietRuns : frame(s, r) /\ ThreadBounded'
    \/ \E t \in Threads, s \in ThreadSurfaces : callback_load(t, s)
    \/ \E t \in Threads : callback_frame(t) /\ ThreadBounded'
    \/ \E t \in Threads : callback_store(t)

ThreadSpec == Init /\ [][ThreadNext]_vars

(* Touch cancellation over two surfaces, one of which may be torn down *)
CancelPositions == {<<10, 20>>}

CancelNext ==
    \/ \E s \in SurfaceIds : new_layer_app(s, "Full") /\ RouteBounded'
    \/ \E s \in SurfaceIds, r \in QuietRuns : configure(s, 800, 600, r) /\ RouteBounded'
    \/ \E s \in RouteSurfaces : Live(s) /\ handle_exit(s) /\ RouteBounded'
    \/ \E s \in SurfaceIds, r \in QuietRuns : frame(s, r) /\ RouteBounded'
    \/ \E s \in SurfaceIds, id \in TouchIds, pos \in CancelPositions :
          touch_down(s, id, pos) /\ RouteBounded'
    \/ \E id \in RouteTouches, pos \in Positions : touch_motion(id, pos) /\ RouteBounded'
    \/ \E order \in iteration_orders(DOMAIN touches) :
          touch_cancel(order) /\ RouteBounded'

CancelSpec == Init /\ [][CancelNext]_vars

(* The keyboard over two surfaces, with focus on neither, one or both *)
MaxKeyEvents == 2      \* pending events of all apps together

KeyEvents ==
    {KeyEvent("a", SomeText(<<"a">>)), KeyEvent("Return", SomeText(<<"LF">>)),
     KeyEvent("at", SomeText(<<"@">>)), KeyEvent("XF86AudioMute", NoText)}
KeyReleases == {KeyEvent("a", SomeText(<<>>))}
KeyModifiers == {{}, {"ctrl", "logo"}}

KeyBounded ==
    /\ \A s \in SurfaceIds : callbacks[s] <= MaxCallbacks
    /\ \A s \in DOMAIN apps : Len(apps[s].events) <= MaxKeyEvents
    /\ \A s \in DOMAIN apps : \A t \in DOMAIN apps \ {s} :
          Len(apps[s].events) + Len(apps[t].events) <= MaxKeyEvents

KeyNext ==
    \/ \E s \in SurfaceIds : new_layer_app(s, "Full") /\ KeyBounded'
    \/ \E s \in SurfaceIds : configure(s, 800, 600, Run(FALSE, {})) /\ KeyBounded'
    \/ \E s \in SurfaceIds : keyboard_enter(s) /\ KeyBounded'
    \/ \E s \in SurfaceIds : keyboard_leave(s) /\ KeyBounded'
    \/ \E event \in KeyEvents : press_key(event) /\ KeyBounded'
    \/ \E event \in KeyReleases : release_key(event) /\ KeyBounded'
    \/ \E modifiers \in KeyModifiers : update_modifiers(modifiers) /\ KeyBounded'

KeySpec == Init /\ [][KeyNext]_vars

(* The pointer over one registered surface and one that never is: every  *)
(* kind of PointerEvent, the buttons of every arm of the button match     *)
(* and one the match does not name.                                       *)
MaxPointerEvents == 2      \* pending events of an app

Buttons == {"BTN_LEFT", "BTN_RIGHT", "BTN_MIDDLE", "BTN_SIDE", "BTN_EXTRA",
            "BTN_FORWARD", "BTN_BACK", "BTN_TASK"}
ReleasedButtons == {"BTN_LEFT", "BTN_BACK"}
AxisSteps == {<<1, 0>>, <<0, 2>>, <<0, -1>>}

PointerEventsOf(s) ==
    {PointerEvent(s, RoutePosition, kind, "BTN_LEFT", 0, 0) :
        kind \in {"Enter", "Leave", "Motion"}}
      \cup {PointerEvent(s, RoutePosition, "Press", b, 0, 0) : b \in Buttons}
      \cup {PointerEvent(s, RoutePosition, "Release", b, 0, 0) : b \in ReleasedButtons}
      \cup {PointerEvent(s, RoutePosition, "Axis", "BTN_LEFT", d[1], d[2]) : d \in AxisSteps}

PointerFrames ==
    {<<e>> : e \in PointerEventsOf("s1")}
      \cup {<<PointerEvent("s1", RoutePosition, "Enter", "BTN_LEFT", 0, 0), e>> :
                e \in {PointerEvent("s1", <<30, 40>>, "Motion", "BTN_LEFT", 0, 0),
                       PointerEvent("s1", RoutePosition, "Enter", "BTN_LEFT", 0, 0)}}
      \cup {<<PointerEvent("s1", RoutePosition, "Press", "BTN_RIGHT", 0, 0),
              PointerEvent("s2", RoutePosition, "Motion", "BTN_LEFT", 0, 0)>>,
            <<PointerEvent("s1", RoutePosition, "Axis", "BTN_LEFT", 0, 2),
              PointerEvent("s1", RoutePosition, "Leave", "BTN_LEFT", 0, 0)>>}

PointerBounded ==
    /\ \A s \in SurfaceIds : callbacks[s] <= MaxCallbacks
    /\ \A s \in DOMAIN apps : Len(apps[s].events) <= MaxPointerEvents

PointerNext ==
    \/ new_layer_app("s1", "Full") /\ PointerBounded'
    \/ configure("s1", 800, 600, Run(FALSE, {})) /\ PointerBounded'
    \/ frame("s1", Run(FALSE, {})) /\ PointerBounded'
    \/ \E f \in PointerFrames : pointer_frame(f) /\ PointerBounded'

PointerSpec == Init /\ [][PointerNext]_vars

(* Polls that find events buffered, or read some, or neither, between    *)
(* the draws of one surface.                                              *)
PollFrame == <<PointerEvent("s1", RoutePosition, "Motion", "BTN_LEFT", 0, 0)>>
PollQueues == {<<>>, <<PollFrame>>, <<PollFrame, PollFrame>>}

PollOrderNext ==
    \/ new_layer_app("s1", "Full") /\ PointerBounded'
    \/ configure("s1", 800, 600, Run(FALSE, {})) /\ PointerBounded'
    \/ frame("s1", Run(FALSE, {})) /\ PointerBounded'
    \/ \E buffered \in PollQueues, flush \in TransportResults, guard \in BOOLEAN,
          read \in TransportResults, arrived \in PollQueues :
          poll_dispatch(buffered, flush, guard, read, arrived) /\ PointerBounded'

PollOrderSpec == Init /\ [][PollOrderNext]_vars

(* Registration of two surfaces with and without an output selector,     *)
(* over what OutputState may hold: no output, outputs with their info,    *)
(* and an output whose info has not arrived (the name it will have is of  *)
(* no use to the selector yet).                                           *)
Hdmi == Output("o1", TRUE, "HDMI-1")
Pending == Output("o2", FALSE, "eDP-1")
Laptop == Output("o3", TRUE, "eDP-1")
Second == Output("o4", TRUE, "DP-2")
OutputLists ==
    {<<>>, <<Hdmi>>, <<Pending>>, <<Pending, Laptop>>, <<Hdmi, Laptop, Second>>,
     <<Pending, Second, Laptop>>}
Selectors ==
    {NoSelector, Selector({}), Selector({"eDP-1"}), Selector({"eDP-1", "DP-2"})}

RegisterNext ==
    \/ \E s \in SurfaceIds, selector \in Selectors, outputs \in OutputLists,
          input_regions \in {"Full", "None"} :
          new_layer_app_opts(s, LayerAppOpts(selector, input_regions), outputs)
            /\ RouteBounded'
    \/ \E s \in SurfaceIds : configure(s, 800, 600, Run(FALSE, {})) /\ RouteBounded'
    \/ \E s \in SurfaceIds : keyboard_enter(s) /\ RouteBounded'
    \/ \E s \in SurfaceIds : Live(s) /\ handle_exit(s) /\ RouteBounded'

RegisterSpec == Init /\ [][RegisterNext]_vars

(* Two seats gaining and losing their capabilities in any order *)
Seats == {"seat0", "seat1"}
Capabilities == {"Keyboard", "Pointer", "Touch"}

SeatNext ==
    \/ \E seat \in Seats, capability \in Capabilities : new_capability(seat, capability)
    \/ \E seat \in Seats, capability \in Capabilities :
          remove_capability(seat, capability)

SeatSpec == Init /\ [][SeatNext]_vars

(* One surface through its whole life: registered, drawn by configure,   *)
(* scale changes and frames, asked to exit and torn down, with repaint    *)
(* requests and exit() calls through its handle before and after.         *)
TeardownSurface == "s1"

TeardownNext ==
    \/ new_layer_app(TeardownSurface, "Full") /\ Bounded'
    \/ RequestRepaint(TeardownSurface) /\ Bounded'
    \/ handle_exit(TeardownSurface) /\ Bounded'
    \/ \E r \in QuietRuns : configure(TeardownSurface, 800, 600, r) /\ Bounded'
    \/ \E k \in IntegerScales, r \in QuietRuns :
          integer_scale_factor_changed(TeardownSurface, k, r) /\ Bounded'
    \/ \E r \in QuietRuns : frame(TeardownSurface, r) /\ Bounded'

TeardownSpec == Init /\ [][TeardownNext]_vars

(* Every routed handler over two registered surfaces *)
SharedRun == Run(FALSE, {})

SharedBounded ==
    /\ \A s \in SurfaceIds : callbacks[s] <= MaxCallbacks
    /\ \A s \in DOMAIN apps : Len(apps[s].events) <= MaxRouted
    /\ \A s \in DOMAIN apps : \A o \in DOMAIN apps \ {s} :
          Len(apps[s].events) + Len(apps[o].events) <= MaxRouted

SharedPointerFrames ==
    {<<PointerEvent(s, RoutePosition, "Motion", "BTN_LEFT", 0, 0)>> : s \in SurfaceIds}
      \cup {<<PointerEvent("s1", RoutePosition, "Motion", "BTN_LEFT", 0, 0),
              PointerEvent("s2", RoutePosition, "Motion", "BTN_LEFT", 0, 0)>>}

SharedNext ==
    \/ \E s \in SurfaceIds : new_layer_app(s, "Full") /\ SharedBounded'
    \/ handle_exit("s1") /\ Live("s1") /\ SharedBounded'
    \/ \E s \in SurfaceIds : configure(s, 800, 600, SharedRun) /\ SharedBounded'
    \/ integer_scale_factor_changed("s1", 2, SharedRun) /\ SharedBounded'
    \/ \E n \in FractionalScales : preferred_scale("s1", n, SharedRun) /\ SharedBounded'
    \/ frame("s1", SharedRun) /\ SharedBounded'
    \/ keyboard_enter("s1") /\ SharedBounded'
    \/ keyboard_leave("s1") /\ SharedBounded'
    \/ \E f \in SharedPointerFrames : pointer_frame(f) /\ SharedBounded'
    \/ \E s \in SurfaceIds, id \in RouteTouches :
          touch_down(s, id, RoutePosition) /\ SharedBounded'
    \/ \E id \in RouteTouches : touch_up(id) /\ SharedBounded'
    \/ \E id \in RouteTouches : touch_motion(id, RoutePosition) /\ SharedBounded'

SharedSpec == Init /\ [][SharedNext]_vars

(* Input of every kind on one surface that is never asked to exit, the   *)
(* compositor delivering every frame callback it has registered.          *)
FlowSurface == "s1"
FlowKeys == {KeyEvent("a", SomeText(<<"a">>)), KeyEvent("at", SomeText(<<"@">>))}

FlowFrame == \E r \in QuietRuns : frame(FlowSurface, r) /\ RouteBounded'

FlowNext ==
    \/ new_layer_app(FlowSurface, "Full") /\ RouteBounded'
    \/ \E r \in QuietRuns : configure(FlowSurface, 800, 600, r) /\ RouteBounded'
    \/ FlowFrame
    \/ keyboard_enter(FlowSurface) /\ RouteBounded'
    \/ \E event \in FlowKeys : press_key(event) /\ RouteBounded'
    \/ pointer_frame(PollFrame) /\ RouteBounded'
    \/ \E id \in RouteTouches : touch_down(FlowSurface, id, RoutePosition) /\ RouteBounded'
    \/ \E id \in RouteTouches : touch_up(id) /\ RouteBounded'

FlowSpec == Init /\ [][FlowNext]_vars /\ WF_vars(FlowFrame)

(* The keyboard of one seat, obtained, released and obtained again, over *)
(* two registered surfaces.                                               *)
FocusSeat == "seat0"

FocusNext ==
    \/ \E s \in SurfaceIds : new_layer_app(s, "Full") /\ RouteBounded'
    \/ \E s \in SurfaceIds : configure(s, 800, 600, Run(FALSE, {})) /\ RouteBounded'
    \/ new_capability(FocusSeat, "Keyboard")
    \/ remove_capability(FocusSeat, "Keyboard")
    \/ \E s \in SurfaceIds : wl_keyboard_enter(s) /\ RouteBounded'
    \/ \E s \in SurfaceIds : wl_keyboard_leave(s) /\ RouteBounded'

FocusSpec == Init /\ [][FocusNext]_vars

----------------------------------------------------------------------------
(* C1: every surface has at most one frame callback registered and not    *)
(* yet delivered, whatever repaint requests, frame deliveries, configure  *)
(* events and scale changes came before; so a repaint request made while  *)
(* one is outstanding registers nothing.                                  *)
C1_AtMostOneOutstanding == \A s \in SurfaceIds : callbacks[s] <= 1

C3_SizeNeverZero ==
    \A s \in DOMAIN apps : apps[s].width > 0 /\ apps[s].height > 0

(* A configure that reported a zero dimension has been handled. *)
C3_Witness ==
    /\ last.kind = "configure" /\ Live(last.surface)
    /\ (last.arg[1] = 0 \/ last.arg[2] = 0)
    /\ ~apps[last.surface].first_configure

(* C4: after a configure event on a live surface the stored size is the   *)
(* fallback (1920, 1080) if the reported size has a zero width or a zero  *)
(* height, and the reported size otherwise.                               *)
C4_ConfigureStoresSize ==
    (last.kind = "configure" /\ Live(last.surface)) =>
        LET app == apps[last.surface]
            w == last.arg[1]
            h == last.arg[2]
        IN  IF w = 0 \/ h = 0
            THEN app.width = DEFAULT_WIDTH /\ app.height = DEFAULT_HEIGHT
            ELSE app.width = w /\ app.height = h

(* A later configure of a surface has reported a zero width with a        *)
(* height that is not zero, and the fallback is stored.                   *)
C4_Witness ==
    /\ last.kind = "configure" /\ Live(last.surface)
    /\ last.arg[1] = 0 /\ last.arg[2] # 0
    /\ apps[last.surface].width = DEFAULT_WIDTH
    /\ last.drew = 0

(* C8: a frame callback delivered for a live surface whose exit flag is   *)
(* set removes the app, calls on_exit once and runs no update; with the   *)
(* flag clear the app stays and update runs exactly once.                 *)
C8_FrameExitsOrDraws ==
    [][\A s \in SurfaceIds :
          (last'.kind = "frame" /\ last'.surface = s /\ Live(s)) =>
              IF exit[s]
              THEN ~Live(s)' /\ last'.on_exit = 1 /\ last'.drew = 0
              ELSE Live(s)' /\ last'.on_exit = 0 /\ last'.drew = 1]_vars

(* A frame callback has removed an app that had been drawn before. *)
C8_Witness ==
    /\ last.kind = "frame" /\ last.on_exit = 1
    /\ ~Live(last.surface) /\ exit[last.surface]
    /\ ~period[last.surface].initial

(* C9: once exit() has been called on a registered surface, its app is    *)
(* eventually removed from the registry, the compositor delivering the    *)
(* first configure and every registered frame callback.                   *)
C9_ExitLeadsToRemoval ==
    \A s \in FairSurfaces : (Created(s) /\ exit[s]) ~> ~Live(s)

(* C5: a touch-down on a live surface followed at once by the touch-up of *)
(* the same id appends, in this order, PointerGone, Touch Start, primary  *)
(* button pressed, Touch End, primary button released, PointerGone, all   *)
(* at the position of the touch-down.                                     *)
C5_DownUpSequence ==
    [][(/\ last.kind = "touch_down" /\ Live(last.surface)
        /\ last'.kind = "touch_up" /\ last'.arg[1] = last.arg[1]) =>
          LET s == last.surface
              id == last.arg[1]
              pos == last.arg[2]
              m == apps[s].modifiers
              n == Len(apps[s].events)
          IN  /\ n >= 3
              /\ apps'[s].events =
                    SubSeq(apps[s].events, 1, n - 3) \o
                    <<PointerGone,
                      Touch(id, "Start", pos),
                      PointerButton(pos, "Primary", TRUE, m),
                      Touch(id, "End", pos),
                      PointerButton(pos, "Primary", FALSE, m),
                      PointerGone>>]_vars

(* The six events of a touch-down and its touch-up are pending, the       *)
(* touch having come down at the other position before.                   *)
C5_Witness ==
    /\ last.kind = "touch_up" /\ Live(last.surface)
    /\ Len(apps[last.surface].events) = 6
    /\ apps[last.surface].events[2] = Touch(last.arg[1], "Start", <<30, 40>>)
    /\ apps[last.surface].events[4] = Touch(last.arg[1], "End", <<30, 40>>)

(* C6: every touch point of the touch map is recorded on a surface that   *)
(* is a key of the registry.                                              *)
C6_TouchesOnLiveSurfaces ==
    \A id \in DOMAIN touches : Live(touches[id].surface_id)

(* C7: a routed event whose surface is not in the registry changes no     *)
(* app, no touch point and no flag, runs no update, registers no frame    *)
(* callback and calls no on_exit; a frame event only uses up its callback.*)
RoutedKinds ==
    {"configure", "frame", "integer_scale", "preferred_scale", "keyboard_enter",
     "keyboard_leave", "pointer_frame", "touch_down", "touch_up", "touch_motion"}

StepTargets(step) ==
    IF step.kind = "pointer_frame"
    THEN {step.arg[i].surface : i \in DOMAIN step.arg}
    ELSE {step.surface}

C7_StaleEventsDiscarded ==
    [][(last'.kind \in RoutedKinds /\ StepTargets(last') \cap DOMAIN apps = {}) =>
          /\ apps' = apps /\ touches' = touches
          /\ frame_requested' = frame_requested /\ exit' = exit /\ period' = period
          /\ last'.drew = 0 /\ last'.regs = 0 /\ last'.on_exit = 0
          /\ last'.handed = <<>>
          /\ callbacks' = IF last'.kind = "frame"
                          THEN [callbacks EXCEPT ![last'.surface] = @ - 1]
                          ELSE callbacks]_vars

(* A touch motion has arrived for a touch point whose app was removed. *)
C7_Witness ==
    /\ last.kind = "touch_motion"
    /\ Created(last.surface) /\ ~Live(last.surface)
    /\ TouchSurface(last.arg[1]) = last.surface

(* C10: a draw hands the UI engine the whole pending list of its app, in  *)
(* the order of the list, and leaves the list empty; every other step     *)
(* only appends to the pending lists and hands nothing.                   *)
IsPrefix(a, b) == Len(a) <= Len(b) /\ SubSeq(b, 1, Len(a)) = a

C10_EventsHandedOnceInOrder ==
    [][\A s \in DOMAIN apps :
          IF last'.drew = 1 /\ last'.surface = s
          THEN last'.handed = apps[s].events /\ apps'[s].events = <<>>
          ELSE /\ Live(s)' => IsPrefix(apps[s].events, apps'[s].events)
               /\ last'.surface = s => last'.handed = <<>>]_vars

(* A draw has handed over the events of a touch-down and a motion. *)
C10_Witness ==
    /\ last.kind = "frame" /\ last.drew = 1
    /\ Len(last.handed) = 5
    /\ last.handed[2].type = "Touch" /\ last.handed[5].type = "PointerMoved"
    /\ apps[last.surface].events = <<>>

(* C11: an integer scale update for a surface whose stored scale is not  *)
(* a whole number changes no app and runs no draw; after a fractional     *)
(* scale update for a live surface the stored scale is the update's       *)
(* value, whatever the stored scale was.                                  *)
C11_IntegerIgnoredFractionalApplies ==
    [][\A s \in SurfaceIds :
          /\ (/\ last'.kind = "integer_scale" /\ last'.surface = s /\ Live(s)
              /\ apps[s].scale % SCALE_DENOMINATOR # 0)
                => apps' = apps /\ last'.drew = 0
          /\ (last'.kind = "preferred_scale" /\ last'.surface = s /\ Live(s))
                => apps'[s].scale = last'.arg[1]]_vars

(* An integer update has been ignored on a fractional stored scale. *)
C11_Witness ==
    /\ last.kind = "integer_scale" /\ Live(last.surface)
    /\ apps[last.surface].scale % SCALE_DENOMINATOR # 0
    /\ last.arg[1] # apps[last.surface].scale

(* C12: the input region a draw sets is told by the policy: None gives   *)
(* a region that covers no pixel, Full gives no region at all, and        *)
(* WindowsOnly gives the region covering exactly the pixels of the boxes  *)
(* (floor of the position, ceil of the size) of the reported areas that   *)
(* are visible, lie above the background layer and have a known position  *)
(* and size.                                                              *)
C12_Reported(a) ==
    /\ a.order # "Background" /\ a.visible /\ a.loaded
    /\ a.pivot_pos # <<>> /\ a.size # <<>>

C12_InBox(p, a) ==
    /\ floor(a.pivot_pos[1]) <= p[1] /\ p[1] < floor(a.pivot_pos[1]) + ceil(a.size[1])
    /\ floor(a.pivot_pos[2]) <= p[2] /\ p[2] < floor(a.pivot_pos[2]) + ceil(a.size[2])

C12_RegionByPolicy ==
    [][last'.drew = 1 =>
          LET policy == apps[last'.surface].input_regions
              reported == {a \in last'.areas : C12_Reported(a)}
          IN  CASE policy = "None" ->
                      last'.region.kind = "region" /\ last'.region.pixels = {}
                [] policy = "Full" -> last'.region = Unrestricted
                [] policy = "WindowsOnly" ->
                      /\ last'.region.kind = "region"
                      /\ \A p \in last'.region.pixels :
                            \E a \in reported : C12_InBox(p, a)
                      /\ \A a \in reported :
                            \A i \in floor(a.pivot_pos[1])
                                        ..(floor(a.pivot_pos[1]) + ceil(a.size[1]) - 1),
                               j \in floor(a.pivot_pos[2])
                                        ..(floor(a.pivot_pos[2]) + ceil(a.size[2]) - 1) :
                                <<i, j>> \in last'.region.pixels]_vars

(* A WindowsOnly surface has been drawn with two overlapping windows, a   *)
(* background panel, a hidden area and an area without a size: the region *)
(* is the seven pixels of the two windows.                                *)
C12_Witness ==
    /\ last.drew = 1 /\ Live(last.surface)
    /\ apps[last.surface].input_regions = "WindowsOnly"
    /\ last.areas = {Panel, WindowA, WindowB, Hidden, Unsized}
    /\ Cardinality(last.region.pixels) = 7

(* C13: the first configure of a surface registered with policy Full,   *)
(* reporting (800, 600), runs one draw, whose physical size is            *)
(* (floor(800 * scale), floor(600 * scale)) for the stored scale and      *)
(* whose input region is unrestricted; when that configure follows the    *)
(* registration at once, it is the only draw that has run and the size    *)
(* is (800, 600).                                                         *)
C13_FirstConfigureDraws ==
    [][\A s \in SurfaceIds :
          (/\ last'.kind = "configure" /\ last'.surface = s /\ last'.arg = <<800, 600>>
           /\ Live(s) /\ apps[s].first_configure
           /\ apps[s].input_regions = "Full") =>
              /\ last'.drew = 1
              /\ last'.physical =
                    <<(800 * apps[s].scale) \div SCALE_DENOMINATOR,
                      (600 * apps[s].scale) \div SCALE_DENOMINATOR>>
              /\ last'.region = Unrestricted
              /\ (last.kind = "new_layer_app" /\ last.surface = s) =>
                    /\ last.drew + last'.drew = 1
                    /\ last'.physical = <<800, 600>>]_vars

(* Registration and one configure with (800, 600): one draw at 800 x 600. *)
C13_Witness ==
    /\ last.kind = "configure" /\ last.arg = <<800, 600>> /\ last.drew = 1
    /\ last.physical = <<800, 600>> /\ last.region = Unrestricted
    /\ apps[last.surface].scale = SCALE_DENOMINATOR

(* C14: a poll that finds nothing buffered and whose read reports        *)
(* would-block returns Ok(0) and changes no app; a read that fails with   *)
(* any other error makes poll return that error after that one read.      *)
C14_PollWouldBlockOrError ==
    [][(/\ last'.kind = "poll_dispatch" /\ last'.arg[4] = <<>>
        /\ last'.arg[1] = "ok" /\ last'.arg[2]) =>
          LET read == last'.arg[3] IN
          /\ read = "would_block" =>
                /\ last'.returned.returned = Ok(0)
                /\ apps' = apps /\ touches' = touches
          /\ read \notin {"ok", "would_block"} =>
                /\ last'.returned.returned = Err(read)
                /\ last'.returned.reads = 1]_vars

(* A poll whose read failed has returned the error, an app being live. *)
C14_Witness ==
    /\ last.kind = "poll_dispatch" /\ last.arg[4] = <<>>
    /\ last.arg[1] = "ok" /\ last.arg[2] /\ last.arg[3] = "connection_reset"
    /\ last.returned.returned.result = "Err"
    /\ DOMAIN apps # {}

(* C15: with repaint callbacks running on other threads, at most one    *)
(* frame callback is registered in a period of the flag, that is between  *)
(* one clearing of the flag by a draw and the next.                       *)
C15_OneRegistrationPerPeriod ==
    \A s \in DOMAIN period : period[s].regs <= 1

(* C15, the other half: no request is lost, so once the surface has been  *)
(* drawn and no callback is running, a flag that is set has a frame       *)
(* callback outstanding.                                                  *)
C15_NoLostRequest ==
    \A s \in DOMAIN apps :
        (/\ frame_requested[s] /\ ~period[s].initial
         /\ \A t \in Threads : threads[t] = Idle)
            => callbacks[s] > 0

(* C16: after the touch-up of a touch id, the id is no longer a key of   *)
(* the touch map.                                                         *)
C16_TouchRemovedOnUp ==
    last.kind = "touch_up" => last.arg[1] \notin DOMAIN touches

(* C16, its consequence: a touch motion that follows the touch-up of the  *)
(* same id at once appends no event.                                      *)
C16_NoMotionAfterUp ==
    [][(/\ last.kind = "touch_up" /\ last'.kind = "touch_motion"
        /\ last'.arg[1] = last.arg[1]) => apps' = apps]_vars

(* C17: a touch cancellation appends to every live surface that has      *)
(* touch points in the map one Touch Cancel per such point, at the        *)
(* point's last position, then one PointerGone, and requests one repaint  *)
(* for that surface; it changes no other app and leaves the touch map     *)
(* empty.                                                                 *)
C17_CancelEvents(order) ==
    [i \in DOMAIN order |-> Touch(order[i], "Cancel", touches[order[i]].last_position)]

C17_CancelEmitsAndClears ==
    [][last'.kind = "touch_cancel" =>
          /\ touches' = << >>
          /\ DOMAIN apps' = DOMAIN apps
          /\ \A s \in DOMAIN apps :
                LET points == {id \in DOMAIN touches : touches[id].surface_id = s} IN
                IF points # {}
                THEN /\ \E order \in iteration_orders(points) :
                          apps'[s] = [apps[s] EXCEPT !.events =
                                        @ \o C17_CancelEvents(order) \o <<PointerGone>>]
                     /\ frame_requested'[s]
                     /\ callbacks'[s] =
                            callbacks[s] + (IF frame_requested[s] THEN 0 ELSE 1)
                ELSE /\ apps'[s] = apps[s]
                     /\ frame_requested'[s] = frame_requested[s]
                     /\ callbacks'[s] = callbacks[s]]_vars

(* Two touch points of one surface have been cancelled, one of them at    *)
(* the position a motion gave it.                                         *)
C17_Witness ==
    /\ last.kind = "touch_cancel" /\ Len(last.arg) = 2
    /\ \E s \in DOMAIN apps :
          /\ Len(apps[s].events) = 3
          /\ apps[s].events[1].type = "Touch" /\ apps[s].events[1].phase = "Cancel"
          /\ apps[s].events[2].type = "Touch" /\ apps[s].events[2].phase = "Cancel"
          /\ apps[s].events[3] = PointerGone
          /\ \E i \in 1..2 : apps[s].events[i].pos = <<30, 40>>

(* C18: a scale update for a live surface that passes the integer        *)
(* handler's filter, or comes from fractional scaling, and differs from   *)
(* the stored scale sets the viewport destination to the stored logical   *)
(* size, stores the new scale and runs one draw in the same step; one     *)
(* equal to the stored scale changes nothing and runs no draw.            *)
ScaleKinds == {"integer_scale", "preferred_scale"}

C18_EffectiveScaleChange ==
    [][\A s \in SurfaceIds :
          (/\ last'.kind \in ScaleKinds /\ last'.surface = s /\ Live(s)
           /\ (last'.kind = "integer_scale" => apps[s].scale % SCALE_DENOMINATOR = 0)) =>
              IF last'.arg[1] # apps[s].scale
              THEN /\ last'.destination = <<apps[s].width, apps[s].height>>
                   /\ apps'[s].scale = last'.arg[1]
                   /\ apps'[s].width = apps[s].width /\ apps'[s].height = apps[s].height
                   /\ last'.drew = 1
                   /\ last'.physical =
                         <<(apps[s].width * last'.arg[1]) \div SCALE_DENOMINATOR,
                           (apps[s].height * last'.arg[1]) \div SCALE_DENOMINATOR>>
              ELSE /\ apps' = apps /\ frame_requested' = frame_requested
                   /\ callbacks' = callbacks
                   /\ last'.drew = 0 /\ last'.destination = NoSize]_vars

(* A fractional update has redrawn a configured surface at 800 x 600. *)
C18_Witness ==
    /\ last.kind = "preferred_scale" /\ last.drew = 1
    /\ last.destination = <<800, 600>>
    /\ last.physical = <<1000, 750>>
    /\ ~apps[last.surface].first_configure

(* C19: the first configure of a surface runs one draw and clears the     *)
(* first-configure flag; a later configure stores the size, runs no draw  *)
(* and registers no frame callback.                                       *)
C19_OnlyFirstConfigureDraws ==
    [][\A s \in SurfaceIds :
          (last'.kind = "configure" /\ last'.surface = s /\ Live(s)) =>
              /\ ~apps'[s].first_configure
              /\ <<apps'[s].width, apps'[s].height>> =
                    (IF last'.arg[1] = 0 \/ last'.arg[2] = 0
                     THEN <<DEFAULT_WIDTH, DEFAULT_HEIGHT>> ELSE last'.arg)
              /\ IF apps[s].first_configure
                 THEN last'.drew = 1
                 ELSE /\ last'.drew = 0 /\ last'.regs = 0
                      /\ callbacks' = callbacks
                      /\ frame_requested' = frame_requested]_vars

(* A later configure has changed the stored size without a draw. *)
C19_Witness ==
    /\ last.kind = "configure" /\ last.drew = 0 /\ Live(last.surface)
    /\ last.arg = <<800, 600>> /\ apps[last.surface].width = 800
    /\ ~period[last.surface].initial

(* C20: a draw of a surface only runs once its first configure has been   *)
(* handled, so after every step that drew, the first-configure flag of    *)
(* the surface is clear.                                                  *)
C20_NoDrawBeforeFirstConfigure ==
    (last.drew = 1 /\ Live(last.surface)) => ~apps[last.surface].first_configure

(* C21: a key event or a modifier update changes only an app whose       *)
(* keyboard-focus flag is set, and no app at all when none has focus.     *)
KeyKinds == {"key_event", "update_modifiers"}

C21_KeysOnlyToFocused ==
    [][last'.kind \in KeyKinds =>
          /\ DOMAIN apps' = DOMAIN apps
          /\ \A s \in DOMAIN apps : apps'[s] # apps[s] => apps[s].keyboard_focus
          /\ (\A s \in DOMAIN apps : ~apps[s].keyboard_focus) =>
                /\ apps' = apps /\ frame_requested' = frame_requested
                /\ callbacks' = callbacks]_vars

(* A key has been pressed while one app had focus and the other had not. *)
C21_Witness ==
    /\ last.kind = "key_event" /\ Live(last.surface)
    /\ Len(apps[last.surface].events) > 0
    /\ \E s \in DOMAIN apps : ~apps[s].keyboard_focus /\ apps[s].events = <<>>

(* C22: a key event on the focused app appends, for a recognized key     *)
(* symbol, a Key event with the app's current modifiers, preceded by a    *)
(* Text event exactly when the key's text is non-empty and free of        *)
(* control characters; for an unrecognized symbol it appends no Key event *)
(* and leaves the app's modifiers as they were.                           *)
C22_Printable(utf8) ==
    /\ utf8.some /\ Len(utf8.chars) > 0
    /\ ~\E i \in 1..Len(utf8.chars) : utf8.chars[i] \in ControlChars

C22_KeyAndText ==
    [][(last'.kind = "key_event" /\ last'.surface # NoSurface) =>
          LET s == last'.surface
              event == last'.arg[1]
              text == IF C22_Printable(event.utf8)
                      THEN <<Text(event.utf8.chars)>> ELSE <<>>
              key == wl_to_egui(event.keysym)
          IN  /\ apps[s].keyboard_focus
              /\ apps'[s].modifiers = apps[s].modifiers
              /\ apps'[s].events =
                    apps[s].events \o text \o
                      (IF key # NoKey
                       THEN <<Key(key, last'.arg[2], apps[s].modifiers)>>
                       ELSE <<>>)]_vars

(* A recognized key with text has been pressed while ctrl was held: a    *)
(* Text and then a Key with the modifiers are pending.                    *)
C22_Witness ==
    /\ last.kind = "key_event" /\ Live(last.surface)
    /\ apps[last.surface].modifiers = {"ctrl", "command"}
    /\ apps[last.surface].events =
          <<Text(<<"a">>), Key("A", TRUE, {"ctrl", "command"})>>

(* C23: every step that appends an event to an app's pending list, other *)
(* than the focus events of keyboard enter and leave, also requests a     *)
(* repaint of that app, so the app's frame-requested flag is set after    *)
(* the step; this includes the Text event of an unrecognized key symbol.  *)
FocusKinds == {"keyboard_enter", "keyboard_leave"}

C23_AppendRequestsRepaint ==
    [][\A s \in DOMAIN apps \cap DOMAIN apps' :
          (/\ Len(apps'[s].events) > Len(apps[s].events)
           /\ last'.kind \notin FocusKinds)
             => frame_requested'[s]]_vars

(* C24: pointer_frame translates the events of a frame on a live surface *)
(* in their order: Enter appends nothing and requests no repaint, Leave   *)
(* appends PointerGone, Motion appends PointerMoved at the position,      *)
(* Press and Release append a PointerButton with pressed true and false   *)
(* and the button RIGHT -> Secondary, MIDDLE -> Middle, BACK and SIDE ->  *)
(* Extra1, FORWARD and EXTRA -> Extra2, every other code -> Primary, and  *)
(* Axis appends a wheel event in lines with delta (horizontal steps,      *)
(* minus vertical steps).                                                 *)
C24_Button(code) ==
    IF code = "BTN_RIGHT" THEN "Secondary"
    ELSE IF code = "BTN_MIDDLE" THEN "Middle"
    ELSE IF code = "BTN_BACK" \/ code = "BTN_SIDE" THEN "Extra1"
    ELSE IF code = "BTN_FORWARD" \/ code = "BTN_EXTRA" THEN "Extra2"
    ELSE "Primary"

C24_Translated(e, modifiers) ==
    IF e.kind = "Enter" THEN <<>>
    ELSE IF e.kind = "Leave" THEN <<[type |-> "PointerGone"]>>
    ELSE IF e.kind = "Motion" THEN <<[type |-> "PointerMoved", pos |-> e.position]>>
    ELSE IF e.kind = "Axis"
         THEN <<[type |-> "MouseWheel", unit |-> "Line",
                 delta |-> <<e.horizontal, 0 - e.vertical>>,
                 modifiers |-> modifiers]>>
    ELSE <<[type |-> "PointerButton", pos |-> e.position,
            button |-> C24_Button(e.button), pressed |-> (e.kind = "Press"),
            modifiers |-> modifiers]>>

RECURSIVE C24_Frame(_, _, _)
C24_Frame(events, s, modifiers) ==
    IF events = <<>> THEN <<>>
    ELSE (IF Head(events).surface = s
          THEN C24_Translated(Head(events), modifiers) ELSE <<>>)
            \o C24_Frame(Tail(events), s, modifiers)

C24_PointerTranslation ==
    [][last'.kind = "pointer_frame" =>
          \A s \in DOMAIN apps :
             LET appended == C24_Frame(last'.arg, s, apps[s].modifiers)
             IN  /\ s \in DOMAIN apps'
                 /\ apps'[s].events = apps[s].events \o appended
                 /\ appended = <<>> =>
                       /\ frame_requested'[s] = frame_requested[s]
                       /\ callbacks'[s] = callbacks[s]
                 /\ appended # <<>> => frame_requested'[s]]_vars

(* A frame of a wheel step and a Leave has been translated for an idle   *)
(* surface: the wheel event with the vertical sign turned, then           *)
(* PointerGone, and one frame callback registered.                        *)
C24_Witness ==
    /\ last.kind = "pointer_frame" /\ Live("s1") /\ last.regs = 1
    /\ Len(last.arg) = 2 /\ last.arg[1].kind = "Axis" /\ last.arg[1].vertical = 2
    /\ apps["s1"].events =
          <<[type |-> "MouseWheel", unit |-> "Line", delta |-> <<0, -2>>,
             modifiers |-> {}], PointerGone>>

(* C25: with a selector, new_layer_app creates the layer surface on the  *)
(* first output, in the order of enumeration and among the outputs whose  *)
(* info is known, that the selector accepts; with no selector, or when    *)
(* it accepts no such output, it passes no output.                        *)
C25_Matches(selector, outputs) ==
    {i \in 1..Len(outputs) : outputs[i].info /\ outputs[i].name \in selector.names}

C25_OutputSelection ==
    last.kind = "new_layer_app" =>
        LET selector == last.arg[1].output
            outputs == last.arg[2]
            matches == C25_Matches(selector, outputs)
        IN  IF selector.some /\ matches # {}
            THEN \E i \in matches :
                    /\ \A j \in matches : i <= j
                    /\ last.output = outputs[i].id
            ELSE last.output = NoOutput

(* A surface has been registered with a selector that accepts two of the *)
(* three outputs: it is on the earlier of the two, the output before it   *)
(* having no info yet.                                                    *)
C25_Witness ==
    /\ last.kind = "new_layer_app"
    /\ last.arg[1].output = Selector({"eDP-1", "DP-2"})
    /\ last.arg[2] = <<Pending, Second, Laptop>>
    /\ last.output = "o4"

(* C27: new_layer_app calls the app's on_init once, then makes the       *)
(* initial commit, then inserts the new app under the surface's id; the   *)
(* new app has the default size, scale 1, first_configure set, no         *)
(* keyboard focus, the exit flag clear and no pending events, and the     *)
(* apps already registered are left as they were.                         *)
C27_At(calls, call) == {i \in 1..Len(calls) : calls[i] = call}

C27_RegistrationOrder ==
    [][last'.kind = "new_layer_app" =>
          LET s == last'.surface
              calls == last'.calls
          IN  /\ Cardinality(C27_At(calls, "on_init")) = 1
              /\ \E i \in C27_At(calls, "on_init") :
                    \E j \in C27_At(calls, "commit") :
                      \E k \in C27_At(calls, "insert") : i < j /\ j < k
              /\ s \notin DOMAIN apps
              /\ DOMAIN apps' = DOMAIN apps \cup {s}
              /\ apps'[s].width = DEFAULT_WIDTH
              /\ apps'[s].height = DEFAULT_HEIGHT
              /\ apps'[s].scale = SCALE_DENOMINATOR
              /\ apps'[s].first_configure
              /\ ~apps'[s].keyboard_focus
              /\ apps'[s].events = <<>>
              /\ ~exit'[s]
              /\ \A o \in DOMAIN apps :
                    /\ apps'[o] = apps[o]
                    /\ frame_requested'[o] = frame_requested[o]
                    /\ exit'[o] = exit[o]]_vars

(* A second surface has been registered beside one that is configured,   *)
(* focused and asked to exit.                                             *)
C27_Witness ==
    /\ last.kind = "new_layer_app" /\ last.surface = "s2" /\ Live("s1")
    /\ ~apps["s1"].first_configure /\ apps["s1"].keyboard_focus /\ exit["s1"]
    /\ apps["s2"].first_configure /\ ~exit["s2"]

(* C28: a keyboard, pointer or touch device is obtained when a seat      *)
(* gains the capability and none is held, and released when the seat it   *)
(* was obtained from loses the capability; a seat losing a capability     *)
(* does not release the device obtained from the other seat.              *)
C28_SeatDevices ==
    [][LET seat == last'.arg[1]
           field == device(last'.arg[2])
       IN  /\ last'.kind = "new_capability" =>
                 seats'[field] = IF seats[field] = NoDevice
                                 THEN [seat |-> seat] ELSE seats[field]
           /\ last'.kind = "remove_capability" =>
                 seats'[field] = IF seats[field] = [seat |-> seat]
                                 THEN NoDevice ELSE seats[field]]_vars

(* C29: once the app of a surface has been removed from the registry, no *)
(* step registers a frame callback for the surface and no step draws it,  *)
(* whatever repaint requests and exit() calls come through its handle,    *)
(* and the surface stays removed.                                         *)
C29_Removed(s) == Created(s) /\ ~Live(s)

C30_Pushed(n) == [i \in 1..n |-> PointerMoved(RoutePosition)]

C30_Dispatched(n) ==
    \A s \in DOMAIN apps : apps'[s].events = apps[s].events \o C30_Pushed(n)

C30_PollOrder ==
    [][last'.kind = "poll_dispatch" =>
          LET flush == last'.arg[1]
              guard == last'.arg[2]
              read == last'.arg[3]
              buffered == Len(last'.arg[4])
              arrived == Len(last'.arg[5])
              calls == last'.calls
              returned == last'.returned.returned
          IN  /\ calls[1] = "dispatch_pending"
              /\ buffered > 0 =>
                    /\ returned = Ok(buffered)
                    /\ calls = <<"dispatch_pending">>
                    /\ C30_Dispatched(buffered)
              /\ buffered = 0 =>
                    /\ calls[2] = "flush"
                    /\ flush # "ok" =>
                          /\ returned = Err(flush)
                          /\ Len(calls) = 2
                          /\ C30_Dispatched(0)
                    /\ (flush = "ok" /\ ~guard) =>
                          /\ returned = Ok(0)
                          /\ calls = <<"dispatch_pending", "flush", "prepare_read">>
                          /\ C30_Dispatched(0)
                    /\ (flush = "ok" /\ guard) =>
                          /\ SubSeq(calls, 1, 4) =
                                <<"dispatch_pending", "flush", "prepare_read", "read">>
                          /\ \A i \in 5..Len(calls) : calls[i] # "read"
                          /\ read = "ok" =>
                                /\ calls[Len(calls)] = "dispatch_pending"
                                /\ Len(calls) > 4
                                /\ returned = Ok(arrived)
                                /\ C30_Dispatched(arrived)
                          /\ read # "ok" => C30_Dispatched(0)]_vars

(* A poll found two events buffered while the flush would have failed:   *)
(* it returned 2 after the one dispatch.                                  *)
C30_Witness ==
    /\ last.kind = "poll_dispatch" /\ Len(last.arg[4]) = 2
    /\ last.arg[1] = "connection_reset"
    /\ last.returned.returned = Ok(2)
    /\ Live("s1") /\ Len(apps["s1"].events) = 2

(* C26: a routed callback for a surface changes at most the app of that  *)
(* surface (for touch up and motion, of the surface recorded for the      *)
(* touch point; for a pointer frame, of the surfaces of its events); the  *)
(* pending events, size, scale, focus, modifiers and flags of every other *)
(* app, and the frame callbacks outstanding for it, stay as they were.    *)
C26_Targets ==
    IF last'.kind \in {"touch_up", "touch_motion"}
    THEN {TouchSurface(last'.arg[1])}
    ELSE StepTargets(last')

C26_OthersUntouched ==
    [][last'.kind \in RoutedKinds =>
          \A o \in DOMAIN apps \ C26_Targets :
             /\ o \in DOMAIN apps'
             /\ apps'[o] = apps[o]
             /\ frame_requested'[o] = frame_requested[o]
             /\ exit'[o] = exit[o]
             /\ callbacks'[o] = callbacks[o]]_vars

(* A frame has removed the app of one surface while the other surface,   *)
(* configured and with events pending, stayed registered.                 *)
C26_Witness ==
    /\ last.kind = "frame" /\ last.on_exit = 1 /\ ~Live(last.surface)
    /\ \E o \in DOMAIN apps :
          /\ ~apps[o].first_configure
          /\ Len(apps[o].events) > 0

(* C31: with the repaint callback run on the dispatching thread only, a  *)
(* registered surface that has been drawn and whose frame-requested flag  *)
(* is set has a frame callback outstanding; the flag is set with no       *)
(* callback outstanding only before the first draw.                       *)
C31_NoLostWakeUp ==
    \A s \in DOMAIN apps :
        /\ (frame_requested[s] /\ ~period[s].initial) => callbacks[s] > 0
        /\ (frame_requested[s] /\ callbacks[s] = 0) => period[s].initial

(* A draw from a frame callback has requested the next frame: the flag   *)
(* is set again and one callback is outstanding.                          *)
C31_Witness ==
    /\ last.kind = "frame" /\ last.drew = 1 /\ last.regs = 1
    /\ Live(last.surface) /\ frame_requested[last.surface]
    /\ ~period[last.surface].initial /\ callbacks[last.surface] = 1

(* C32: after the first configure of a surface that is never asked to    *)
(* exit, every pointer, touch or recognized-key event pending for it is   *)
(* eventually among the events a draw hands to the UI engine, the         *)
(* compositor delivering every registered frame callback.                 *)
C32_Events ==
    {PointerMoved(RoutePosition), PointerGone, Key("A", TRUE, {}), Text(<<"a">>)}
      \cup {Touch(id, phase, RoutePosition) : id \in RouteTouches, phase \in {"Start", "End"}}
      \cup {PointerButton(RoutePosition, "Primary", pressed, {}) : pressed \in BOOLEAN}

C32_In(e, events) == \E i \in 1..Len(events) : events[i] = e

C32_EventsReachTheEngine ==
    \A e \in C32_Events :
        (/\ Live(FlowSurface) /\ ~apps[FlowSurface].first_configure
         /\ C32_In(e, apps[FlowSurface].events))
          ~> (last.drew = 1 /\ last.surface = FlowSurface /\ C32_In(e, last.handed))

(* A draw from a frame callback has handed over a key press and a        *)
(* pointer motion.                                                        *)
C32_Witness ==
    /\ last.kind = "frame" /\ last.drew = 1
    /\ C32_In(Key("A", TRUE, {}), last.handed)
    /\ C32_In(PointerMoved(RoutePosition), last.handed)

(* C33: once the exit flag of a surface is set, no step draws the        *)
(* surface, whether the step is a frame, a configure or a scale change.   *)
C33_NoDrawAfterExit ==
    [][\A s \in DOMAIN exit :
          exit[s] => ~(last'.drew = 1 /\ last'.surface = s)]_vars

(* C34: at most one registered app has its keyboard-focus flag set. *)
C34_AtMostOneFocused ==
    \A s \in DOMAIN apps : \A o \in DOMAIN apps :
        (apps[s].keyboard_focus /\ apps[o].keyboard_focus) => s = o

(* C35: the viewport destination a scale change has set for a surface   *)
(* equals the logical size of the surface in the states that follow, also *)
(* after a configure that changes the size.  The destination lives in the *)
(* compositor; it is the one the last scale change of the surface set, so *)
(* the property is stated of the step that follows a scale change.        *)
C35_Destination(s) ==
    IF last'.surface = s /\ last'.destination # NoSize
    THEN last'.destination ELSE last.destination

C35_DestinationIsLogicalSize ==
    [][\A s \in DOMAIN apps \cap DOMAIN apps' :
          (last.surface = s /\ last.destination # NoSize) =>
             C35_Destination(s) = <<apps'[s].width, apps'[s].height>>]_vars

====
